---- MODULE Spec2Model ----
(***************************************************************************)
(* Trade-event notification pipeline of freqtrade's rpc package.           *)
(*                                                                         *)
(* Two chat handlers are modelled, both classes named Telegram:            *)
(*   "channel"  src/freqtrade/rpc/channel.py                               *)
(*   "legacy"   src/freqtrade/rpc/_telegram.py                             *)
(* The legacy file names the message types BUY/SELL and the exit reason    *)
(* field sell_reason; here the types carry the names of channel.py         *)
(* (ENTRY/EXIT) and the legacy reads of msg['sell_reason'] read the        *)
(* event's exit reason.                                                    *)
(*                                                                         *)
(* The webhook handler, class Webhook of src/freqtrade/rpc/webhook.py, is  *)
(* the third handler; it names the types BUY/SELL as the legacy file does. *)
(* One webhook dispatch is one step: send_msg with its call of _send_msg   *)
(* and the outcome of requests.post.                                       *)
(*                                                                         *)
(* One dispatch is: send_msg (policy, composition, recipient list), then   *)
(* one step per call of bot.send_message, whose outcome the channel        *)
(* decides, then the return to the caller.                                 *)
(***************************************************************************)
EXTENDS Integers, Sequences, FiniteSets, TLC

VARIABLES
    handler,                \* which handler class was constructed
    master_ids,             \* config['channel']['master']: list of dicts name -> id
    chat_id,                \* the secondary id ('' when not configured)
    notification_settings,  \* config[...]['notification_settings']
    fiat_converter,         \* self._rpc._fiat_converter is set
    pc,                     \* position of the dispatch
    msg,                    \* the event the caller passed to send_msg
    written,                \* keys the handler assigned on the caller's dict
    noti,                   \* send_msg's local noti
    message,                \* the composed text handed to _send_msg
    chat_ids,               \* _send_msg's local chat_ids
    pos,                    \* index of the for loop over chat_ids
    sent,                   \* every call of bot.send_message of this dispatch
    result,                 \* how send_msg ended
    error,                  \* the exception send_msg raised to its caller
    webhook,                \* config['webhook'] of the webhook handler
    constructed,            \* Webhook.__init__ returned without raising
    wpc,                    \* position of the webhook dispatch
    wmsg,                   \* the event passed to Webhook.send_msg
    posts,                  \* every call of requests.post of this dispatch
    wresult                 \* how Webhook.send_msg ended

vars == <<handler, master_ids, chat_id, notification_settings, fiat_converter,
          pc, msg, written, noti, message, chat_ids, pos, sent, result, error,
          webhook, constructed, wpc, wmsg, posts, wresult>>

config == <<handler, master_ids, chat_id, notification_settings, fiat_converter,
            webhook, constructed>>

\* the state of a chat dispatch
chat_vars == <<pc, msg, written, noti, message, chat_ids, pos, sent, result, error>>

\* the state of a webhook dispatch
webhook_vars == <<wpc, wmsg, posts, wresult>>

----------------------------------------------------------------------------
(* Bounds *)

\* longest primary list of the configuration
MaxMasters == 2

----------------------------------------------------------------------------
(* Event taxonomy: the values of RPCMessageType used by the handlers *)

STATUS == "status"
WARNING == "warning"
STARTUP == "startup"
ENTRY == "entry"
ENTRY_FILL == "entry_fill"
ENTRY_CANCEL == "entry_cancel"
EXIT == "exit"
EXIT_FILL == "exit_fill"
EXIT_CANCEL == "exit_cancel"
PROTECTION_TRIGGER == "protection_trigger"
PROTECTION_TRIGGER_GLOBAL == "protection_trigger_global"
STRATEGY_MSG == "strategy_msg"
\* a type none of the composers' branches names
OTHER_TYPE == "whitelist"

RPCMessageType ==
    {STATUS, WARNING, STARTUP, ENTRY, ENTRY_FILL, ENTRY_CANCEL, EXIT, EXIT_FILL,
     EXIT_CANCEL, PROTECTION_TRIGGER, PROTECTION_TRIGGER_GLOBAL, STRATEGY_MSG,
     OTHER_TYPE}

\* Python's None
None == "<None>"

\* str(x) as send_msg applies it to the exit reason: None becomes 'None'
Str(x) == IF x = None THEN "None" ELSE x

ExitReasons == {"stoploss", "roi", None}

\* profit_ratio in 1/10000, so that profit_percent = round(ratio * 100, 2)
\* is the same number in 1/100 of a percent
ProfitRatios == {-100, 0, 500}

\* the two chat handlers
Handlers == {"channel", "legacy"}

ParseModeHTML == "HTML"

\* outcomes of one call of bot.send_message
OK == "ok"
NetworkError == "NetworkError"
TelegramError == "TelegramError"
Outcomes == {OK, NetworkError, TelegramError}

----------------------------------------------------------------------------
(* Events.  An event is the dict passed to send_msg.  Only the fields the  *)
(* handlers branch on are kept; every other field the composers read       *)
(* ('pair', 'trade_id', 'amount', 'open_rate', the dates, ...) is present. *)
(*   exit_reason      value of msg['exit_reason'] (None allowed)           *)
(*   profit_ratio     msg['profit_ratio'] in 1/10000                       *)
(*   has_sell_reason  the deprecated key 'sell_reason' is in the dict      *)
(*   sub_trade        msg.get('sub_trade')                                 *)
(*   sub_profit       msg['profit_amount'] != msg.get('cumulative_profit') *)
(*   has_reason       the key 'reason' is in the dict                      *)
(*   has_msg          the key 'msg' is in the dict                         *)

Event(t, r, p, s, st, sp, hr, hm) ==
    [type |-> t, exit_reason |-> r, profit_ratio |-> p, has_sell_reason |-> s,
     sub_trade |-> st, sub_profit |-> sp, has_reason |-> hr, has_msg |-> hm]

\* pending exits: every reason at every profit tier, with and without the
\* deprecated key where it is read, and the partial exits
ExitEvents ==
    {Event(EXIT, r, p, TRUE, FALSE, FALSE, FALSE, FALSE) :
        r \in ExitReasons, p \in ProfitRatios}
    \cup {Event(EXIT, r, -100, FALSE, FALSE, FALSE, FALSE, FALSE) :
        r \in ExitReasons}
    \cup {Event(EXIT, "roi", 0, TRUE, TRUE, sp, FALSE, FALSE) : sp \in BOOLEAN}

ExitFillEvents ==
    {Event(EXIT_FILL, r, 0, TRUE, FALSE, FALSE, FALSE, FALSE) : r \in ExitReasons}
    \cup {Event(EXIT_FILL, "roi", -100, FALSE, TRUE, sp, FALSE, FALSE) :
        sp \in BOOLEAN}

CancelEvents ==
    {Event(t, None, 0, FALSE, FALSE, FALSE, hr, FALSE) :
        t \in {ENTRY_CANCEL, EXIT_CANCEL}, hr \in BOOLEAN}
    \cup {Event(EXIT_CANCEL, "roi", 0, FALSE, FALSE, FALSE, TRUE, FALSE)}

PlainEvents ==
    {Event(t, None, 0, FALSE, FALSE, FALSE, TRUE, FALSE) :
        t \in {ENTRY, ENTRY_FILL, PROTECTION_TRIGGER, PROTECTION_TRIGGER_GLOBAL,
               STATUS, WARNING, STARTUP}}

TextEvents ==
    {Event(STRATEGY_MSG, None, 0, FALSE, FALSE, FALSE, FALSE, TRUE)}
    \cup {Event(OTHER_TYPE, None, 0, FALSE, FALSE, FALSE, FALSE, hm) :
        hm \in BOOLEAN}

Events == ExitEvents \cup ExitFillEvents \cup CancelEvents \cup PlainEvents
          \cup TextEvents

NoEvent == Event("", None, 0, FALSE, FALSE, FALSE, FALSE, FALSE)

----------------------------------------------------------------------------
(* Configuration *)

\* a policy value is a Python str or a dict from reason to str
PStr(v) == [kind |-> "str", val |-> v]
PDict(d) == [kind |-> "dict", val |-> d]

isinstance_str(x) == x.kind = "str"

\* dict.get(key, default)
Get(d, k, default) == IF k \in DOMAIN d THEN d[k] ELSE default

EmptyDict == [k \in {} |-> "on"]

TriStates == {"on", "off", "silent"}

\* per-reason mappings of the exit entries
ReasonMaps ==
    { ("stoploss" :> "silent"),
      ("stoploss" :> "off") @@ ("roi" :> "silent"),
      ("default" :> "silent") @@ ("stoploss" :> "off"),
      ("default" :> "on") @@ ("stoploss" :> "silent") }

\* the mappings tried as the entry of the filled exit
FillReasonMaps ==
    { ("stoploss" :> "silent"),
      ("stoploss" :> "off") @@ ("roi" :> "silent") }

\* the notification_settings tables: none, one value for every type, and the
\* exit entries as mappings
PolicyTables ==
    {EmptyDict}
    \cup {[t \in RPCMessageType |-> PStr(v)] : v \in TriStates}
    \cup {(EXIT :> PDict(m)) : m \in ReasonMaps}
    \cup {(EXIT_FILL :> PDict(m)) : m \in FillReasonMaps}

\* the tables every primary list is combined with; the other tables are
\* combined with the primary lists of at most one id
FanoutTables == {EmptyDict, [t \in RPCMessageType |-> PStr("silent")]}

RECURSIVE Descending(_)
\* the ids <<"n", ..., "2", "1">>
Descending(n) == IF n = 0 THEN <<>> ELSE <<ToString(n)>> \o Descending(n - 1)

\* config['channel']['master']: a list of dicts, each an insertion-ordered
\* list of ids; one id per dict, or all the ids in one dict
MasterConfigs ==
    {[i \in 1..n |-> <<ToString(n + 1 - i)>>] : n \in 0..MaxMasters}
    \cup {<<Descending(n)>> : n \in 2..MaxMasters}

\* the secondary id
SlaveId == "slave"
ChatIds == {"", SlaveId}

----------------------------------------------------------------------------
(* Notification policy: the first half of send_msg *)

\* the default policy mistaken for 'silent'
default_noti_silent == PStr("silent")

default_noti == PStr("on")

\* the type whose entry may be a per-reason mapping
\* (RPCMessageType.EXIT; RPCMessageType.SELL in the legacy file)
IsReasonKeyed(msg_type) == msg_type = EXIT

\* the local noti of send_msg; both files compute it alike
ResolveNoti(settings, m) ==
    IF IsReasonKeyed(m.type)
    THEN LET sell_noti == Get(settings, m.type, PDict(EmptyDict)) IN
         IF isinstance_str(sell_noti)
         THEN sell_noti
         ELSE PStr(Get(sell_noti.val, Str(m.exit_reason), default_noti.val))
    ELSE Get(settings, m.type, default_noti)

\* noti == 'off'
IsOff(n) == n.kind = "str" /\ n.val = "off"

\* noti == 'silent', the disable_notification argument
IsSilent(n) == n.kind = "str" /\ n.val = "silent"

----------------------------------------------------------------------------
(* Message composition.  A composed text is a record of the parts of the   *)
(* text that vary with the event.                                          *)

Upper(r) ==
    CASE r = "stoploss" -> "STOPLOSS"
      [] r = "roi" -> "ROI"
      [] OTHER -> r

\* msg['profit_percent'] in 1/100 of a percent
profit_percent(m) == m.profit_ratio

\* _get_sell_emoji of channel.py raises KeyError when it reaches the
\* 'sell_reason' lookup and the key is missing
SellEmojiRaises(m) ==
    /\ ~(profit_percent(m) >= 500)
    /\ ~(profit_percent(m) >= 0)
    /\ ~m.has_sell_reason

\* the deprecated key, when present, carries the exit reason
_get_sell_emoji(m) ==
    IF profit_percent(m) >= 500 THEN "ROCKET"
    ELSE IF profit_percent(m) >= 0 THEN "CURRENCY EXCHANGE"
    ELSE IF m.exit_reason = "stoploss" THEN "WARNING SIGN"
    ELSE "CROSS MARK"

\* _get_sell_emoji of the legacy file
LegacySellEmoji(m) ==
    IF profit_percent(m) >= 500 THEN "ROCKET"
    ELSE IF profit_percent(m) >= 0 THEN "EIGHT SPOKED ASTERISK"
    ELSE IF m.exit_reason = "stoploss" THEN "WARNING SIGN"
    ELSE "CROSS MARK"

\* the cumulative-profit line calls the converter without testing it
CumulativeProfitRaises(m, conv) == m.sub_profit /\ m.sub_trade /\ ~conv

_format_exit_msg_raises(m, conv) ==
    \/ (m.type # EXIT_FILL /\ SellEmojiRaises(m))
    \/ CumulativeProfitRaises(m, conv)

Text(t, e, r) == [type |-> t, emoji |-> e, reason |-> r]

_format_exit_msg(m) ==
    Text(m.type,
         IF m.type = EXIT_FILL THEN "LARGE RED CIRCLE" ELSE _get_sell_emoji(m),
         IF m.exit_reason = None THEN "None" ELSE Upper(m.exit_reason))

_format_sell_msg(m) ==
    Text(m.type,
         IF m.type = EXIT_FILL THEN "LARGE RED CIRCLE" ELSE LegacySellEmoji(m),
         IF m.exit_reason = None THEN "None" ELSE Upper(m.exit_reason))

_format_entry_msg(m) ==
    Text(m.type, IF m.type = ENTRY_FILL THEN "SPARKLE" ELSE "LARGE BLUE DIAMOND", "")

_format_buy_msg(m) ==
    Text(m.type, IF m.type = ENTRY_FILL THEN "CHECK MARK" ELSE "LARGE BLUE DIAMOND", "")

\* compose_message of channel.py raises
ChannelComposeRaises(m, conv) ==
    CASE m.type \in {EXIT, EXIT_FILL} -> _format_exit_msg_raises(m, conv)
      [] m.type \in {ENTRY_CANCEL, EXIT_CANCEL} -> ~m.has_reason
      [] m.type \in {ENTRY, ENTRY_FILL, PROTECTION_TRIGGER,
                     PROTECTION_TRIGGER_GLOBAL, STATUS, WARNING, STARTUP} -> FALSE
      [] OTHER -> ~m.has_msg

\* compose_message of channel.py, when it returns
ChannelCompose(m) ==
    CASE m.type \in {ENTRY, ENTRY_FILL} -> _format_entry_msg(m)
      [] m.type \in {EXIT, EXIT_FILL} -> _format_exit_msg(m)
      [] m.type \in {ENTRY_CANCEL, EXIT_CANCEL} -> Text(m.type, "ANGER SYMBOL", "reason")
      [] m.type \in {PROTECTION_TRIGGER, PROTECTION_TRIGGER_GLOBAL} ->
            Text(m.type, "CURLY LOOP", "reason")
      [] m.type \in {STATUS, STARTUP} -> Text(m.type, "GEAR", "")
      [] m.type = WARNING -> Text(m.type, "WARNING SIGN", "")
      [] OTHER -> Text("passthrough", "", "")

\* compose_message of the legacy file raises: a missing 'reason' in the
\* cancel template, and Warning for every type it has no branch for
LegacyComposeRaises(m) ==
    CASE m.type \in {ENTRY_CANCEL, EXIT_CANCEL} -> ~m.has_reason
      [] m.type \in {ENTRY, ENTRY_FILL, EXIT, EXIT_FILL, PROTECTION_TRIGGER,
                     PROTECTION_TRIGGER_GLOBAL, STATUS, WARNING, STARTUP} -> FALSE
      [] OTHER -> TRUE

\* compose_message of the legacy file, when it returns
LegacyCompose(m) ==
    CASE m.type \in {ENTRY, ENTRY_FILL} -> _format_buy_msg(m)
      [] m.type \in {EXIT, EXIT_FILL} -> _format_sell_msg(m)
      [] m.type \in {ENTRY_CANCEL, EXIT_CANCEL} -> Text(m.type, "WARNING SIGN", "reason")
      [] m.type \in {PROTECTION_TRIGGER, PROTECTION_TRIGGER_GLOBAL} ->
            Text(m.type, "", "reason")
      [] m.type = STATUS -> Text(m.type, "GEAR", "")
      [] m.type = WARNING -> Text(m.type, "WARNING SIGN", "")
      [] OTHER -> Text(m.type, "", "")

compose_message_raises(h, m, conv) ==
    IF h = "channel" THEN ChannelComposeRaises(m, conv) ELSE LegacyComposeRaises(m)

\* the exception _format_exit_msg of channel.py raises: the emoji is chosen
\* before the cumulative-profit line is reached
_format_exit_msg_error(m, conv) ==
    IF m.type # EXIT_FILL /\ SellEmojiRaises(m) THEN "KeyError"
    ELSE IF CumulativeProfitRaises(m, conv) THEN "AttributeError"
    ELSE "none"

\* the exception compose_message raises, "none" when it returns
compose_message_error(h, m, conv) ==
    IF ~compose_message_raises(h, m, conv) THEN "none"
    ELSE IF h = "channel" /\ m.type \in {EXIT, EXIT_FILL}
         THEN _format_exit_msg_error(m, conv)
    ELSE IF h # "channel" /\ m.type \notin {ENTRY_CANCEL, EXIT_CANCEL}
         THEN "Warning"
    ELSE "KeyError"

compose_message(h, m) ==
    IF h = "channel" THEN ChannelCompose(m) ELSE LegacyCompose(m)

\* the keys the legacy compose_message assigns on the dict it is given,
\* up to the point where it raises or returns
LegacyWrites(m, conv) ==
    {"uid", "exchange"}
    \cup (CASE m.type \in {ENTRY, ENTRY_FILL} -> {"stake_amount_fiat", "emoji"}
            [] m.type \in {EXIT, EXIT_FILL} ->
                 {"amount", "profit_percent", "duration", "duration_min",
                  "buy_tag", "emoji", "profit_extra"}
                 \cup (IF conv THEN {"profit_fiat"} ELSE {})
            [] m.type \in {ENTRY_CANCEL, EXIT_CANCEL} -> {"side"}
            [] OTHER -> {})

\* channel.py composes on deepcopy(msg), the legacy file on msg itself
CallerWrites(h, m, conv) ==
    IF h = "channel" THEN {} ELSE LegacyWrites(m, conv)

----------------------------------------------------------------------------
(* Recipient fanout: the head of _send_msg *)

RECURSIVE Flatten(_)
\* for master in master_ids: for name, id in master.items(): append(id)
Flatten(dicts) ==
    IF dicts = <<>> THEN <<>> ELSE Head(dicts) \o Flatten(Tail(dicts))

\* the primary ids used for every type, STARTUP included
MasterPart_Always(masters, msg_type) ==
    IF Len(masters) # 0 THEN Flatten(masters) ELSE <<>>

\* the primary ids are used unless the type is STARTUP
MasterPart(masters, msg_type) ==
    IF Len(masters) # 0 /\ msg_type \notin {STARTUP} THEN Flatten(masters) ELSE <<>>

\* the secondary id excluded for STARTUP alone
SlavePart_Status(slave, msg_type) ==
    IF slave # "" /\ msg_type \notin {STARTUP} THEN <<slave>> ELSE <<>>

\* the secondary id is used unless the type is STARTUP or STATUS
SlavePart(slave, msg_type) ==
    IF slave # "" /\ msg_type \notin {STARTUP, STATUS} THEN <<slave>> ELSE <<>>

\* the secondary id appended before the primary ids
RecipientsFor_SlaveFirst(masters, slave, msg_type) ==
    SlavePart(slave, msg_type) \o MasterPart(masters, msg_type)

RecipientsFor(masters, slave, msg_type) ==
    MasterPart(masters, msg_type) \o SlavePart(slave, msg_type)

----------------------------------------------------------------------------
(* The webhook handler.  A template (valuedict) maps payload keys to       *)
(* format strings; a format string is a literal text or a reference to one *)
(* key of the event, which str.format replaces by the event's value.       *)

Lit(t) == [lit |-> t, field |-> ""]
Field(f) == [lit |-> "", field |-> f]

\* the types whose events carry the trade's 'pair' and 'exchange'
TradeTypes == {ENTRY, ENTRY_FILL, ENTRY_CANCEL, EXIT, EXIT_FILL, EXIT_CANCEL}

\* the keys of the event dict a format string can refer to
MsgKeys(m) ==
    {"type"}
    \cup (IF m.type \in TradeTypes THEN {"pair", "exchange"} ELSE {})
    \cup (IF m.has_reason THEN {"reason"} ELSE {})
    \cup (IF m.has_msg THEN {"msg"} ELSE {})

\* the exchange named by a trade event, and config['exchange']['name']
EventExchange == "Binance"
ConfigExchangeName == "binance"

\* msg[k]
FieldValue(m, k) ==
    CASE k = "type" -> m.type
      [] k = "pair" -> "ETH/BTC"
      [] k = "exchange" -> EventExchange
      [] k = "reason" -> "cancelled on exchange"
      [] k = "msg" -> "text"

\* value.format(**msg) raises KeyError
FormatRaises(value, m) == value.field # "" /\ value.field \notin MsgKeys(m)

\* value.format(**msg)
Format(value, m) ==
    IF value.field = "" THEN value.lit ELSE FieldValue(m, value.field)

\* Python's None where a template is looked up
NoValuedict == [kind |-> "None", val |-> EmptyDict]

\* "not valuedict" is false
Truthy(v) == v.kind = "dict" /\ DOMAIN v.val # {}

Valuedicts ==
    { EmptyDict,
      ("value1" :> Lit("fixed text")),
      ("value1" :> Field("pair")),
      ("value1" :> Field("reason")),
      ("type" :> Lit("custom")) @@ ("exchange" :> Field("exchange"))
          @@ ("value1" :> Field("pair")) }

WebhookKeys ==
    {"webhookbuy", "webhookbuycancel", "webhookbuyfill", "webhooksell",
     "webhooksellfill", "webhooksellcancel", "webhookstatus"}

\* the template entries of config['webhook']: none, one template under
\* every key, or the status template alone
TemplateTables ==
    {EmptyDict}
    \cup {[k \in WebhookKeys |-> PDict(v)] : v \in Valuedicts}
    \cup {("webhookstatus" :> PDict(("value1" :> Lit("fixed text"))))}

\* config['webhook']: 'format' (None when the key is unset), the template
\* entries and whether a non-empty 'auth' is there
WebhookConfigs ==
    [format : {None, "form", "json", "xml"},
     templates : TemplateTables,
     auth : BOOLEAN]

\* the configuration of a bot without a webhook section
NoWebhook == [format |-> None, templates |-> EmptyDict, auth |-> FALSE]

\* self._format
_format(cfg) == IF cfg.format = None THEN "form" ELSE cfg.format

\* a constructor that accepts every format
WebhookConstructed_Any(cfg) == TRUE

\* Webhook.__init__ returns; an unknown format raises NotImplementedError
WebhookConstructed(cfg) == _format(cfg) \in {"form", "json"}

\* the if/elif chain of Webhook.send_msg; BUY/SELL are the entry/exit types
HasWebhookBranch(t) ==
    t \in {ENTRY, ENTRY_CANCEL, ENTRY_FILL, EXIT, EXIT_FILL, EXIT_CANCEL,
           STATUS, STARTUP, WARNING}

WebhookKey(t) ==
    CASE t = ENTRY -> "webhookbuy"
      [] t = ENTRY_CANCEL -> "webhookbuycancel"
      [] t = ENTRY_FILL -> "webhookbuyfill"
      [] t = EXIT -> "webhooksell"
      [] t = EXIT_FILL -> "webhooksellfill"
      [] t = EXIT_CANCEL -> "webhooksellcancel"
      [] t \in {STATUS, STARTUP, WARNING} -> "webhookstatus"

\* valuedict of send_msg
valuedict(cfg, t) == Get(cfg.templates, WebhookKey(t), NoValuedict)

\* the dict comprehension raises KeyError
PayloadRaises(v, m) == \E k \in DOMAIN v : FormatRaises(v[k], m)

\* {key: value.format(**msg) for (key, value) in valuedict.items()}
Payload(v, m) == [k \in DOMAIN v |-> Format(v[k], m)]

\* if 'type' not in payload.keys(): payload['type'] = msg['type']
WithType(payload, m) ==
    IF "type" \notin DOMAIN payload THEN payload @@ ("type" :> m.type) ELSE payload

\* the exchange name of the configuration written over the template's value
WithExchange_Overwrite(payload) ==
    ("exchange" :> ConfigExchangeName) @@ payload

\* if 'exchange' not in payload.keys(): the exchange name of the configuration
WithExchange(payload) ==
    IF "exchange" \notin DOMAIN payload
    THEN payload @@ ("exchange" :> ConfigExchangeName)
    ELSE payload

\* outcomes of one call of requests.post
RequestException == "RequestException"
PostOutcomes == {OK, RequestException}

\* the keyword arguments of requests.post
PostKwargs(cfg) ==
    (IF _format(cfg) = "form" THEN {"data"} ELSE {"json"})
    \cup (IF cfg.auth THEN {"auth"} ELSE {})

\* one call of requests.post
Post(cfg, payload, o) == [kwargs |-> PostKwargs(cfg), payload |-> payload, outcome |-> o]

\* a post repeated once after a transport failure
PostCalls_Retry(cfg, payload, o) ==
    IF o = RequestException
    THEN <<Post(cfg, payload, o), Post(cfg, payload, OK)>>
    ELSE <<Post(cfg, payload, o)>>

\* the calls of requests.post of one _send_msg: one, whatever its outcome
PostCalls(cfg, payload, o) == <<Post(cfg, payload, o)>>

\* Webhook._send_msg(payload); RequestException is logged, not raised
Webhook__send_msg(payload, o) ==
    IF _format(webhook) \notin {"form", "json"}
    THEN /\ posts' = <<>>
         /\ wresult' = "raised unknown format"
    ELSE /\ posts' = PostCalls(webhook, WithExchange(payload), o)
         /\ wresult' = "returned"

\* a KeyError that leaves send_msg
except_KeyError_Raise ==
    /\ posts' = <<>>
    /\ wresult' = "raised KeyError"

\* except KeyError: logger.exception(...); send_msg then returns
except_KeyError ==
    /\ posts' = <<>>
    /\ wresult' = "logged KeyError"

\* Webhook.send_msg(msg), with its call of _send_msg.  KeyError is caught
\* and logged; the NotImplementedError of the else branch is not caught.
Webhook_send_msg(m, o) ==
    /\ handler = "webhook"
    /\ constructed
    /\ wpc = "idle"
    /\ wpc' = "done"
    /\ wmsg' = m
    /\ IF ~HasWebhookBranch(m.type)
       THEN /\ posts' = <<>>
            /\ wresult' = "raised unknown type"
       ELSE IF ~Truthy(valuedict(webhook, m.type))
       THEN /\ posts' = <<>>
            /\ wresult' = "not configured"
       ELSE IF PayloadRaises(valuedict(webhook, m.type).val, m)
       THEN except_KeyError
       ELSE Webhook__send_msg(WithType(Payload(valuedict(webhook, m.type).val, m), m), o)
    /\ UNCHANGED config
    /\ UNCHANGED chat_vars

----------------------------------------------------------------------------
(* The state machine *)

\* a chat handler and its configuration; no webhook section
ChatInit ==
    /\ handler \in Handlers
    /\ master_ids \in MasterConfigs
    /\ chat_id \in ChatIds
    /\ notification_settings \in PolicyTables
    /\ (notification_settings \in FanoutTables \/ Len(Flatten(master_ids)) <= 1)
    /\ fiat_converter \in BOOLEAN
    /\ webhook = NoWebhook

\* the webhook handler and its configuration; no chat section
WebhookInit ==
    /\ handler = "webhook"
    /\ master_ids = <<>>
    /\ chat_id = ""
    /\ notification_settings = EmptyDict
    /\ fiat_converter = FALSE
    /\ webhook \in WebhookConfigs

Init ==
    /\ (ChatInit \/ WebhookInit)
    /\ constructed = WebhookConstructed(webhook)
    /\ wpc = "idle"
    /\ wmsg = NoEvent
    /\ posts = <<>>
    /\ wresult = "none"
    /\ error = "none"
    /\ pc = "idle"
    /\ msg = NoEvent
    /\ written = {}
    /\ noti = default_noti
    /\ message = Text("", "", "")
    /\ chat_ids = <<>>
    /\ pos = 0
    /\ sent = <<>>
    /\ result = "none"

\* send_msg ends without reaching _send_msg
Finish(how, m, n, w) ==
    /\ pc' = "done"
    /\ result' = how
    /\ msg' = m
    /\ noti' = n
    /\ written' = w
    /\ UNCHANGED <<message, chat_ids, pos, sent>>
    /\ error' = IF how = "raised"
                THEN compose_message_error(handler, m, fiat_converter)
                ELSE "none"

\* send_msg(msg) up to the first call of bot.send_message: the policy, the
\* composition and the recipient list of _send_msg.  Every text the composers
\* return is non-empty, so the test "if message:" of channel.py always passes.
\* An exception of compose_message is not caught: it ends send_msg.
send_msg(m) ==
    /\ handler \in Handlers
    /\ pc = "idle"
    /\ LET n == ResolveNoti(notification_settings, m) IN
       IF IsOff(n)
       THEN Finish("off", m, n, {})
       ELSE IF compose_message_raises(handler, m, fiat_converter)
       THEN Finish("raised", m, n, CallerWrites(handler, m, fiat_converter))
       ELSE LET ids == RecipientsFor(master_ids, chat_id, m.type) IN
            /\ msg' = m
            /\ noti' = n
            /\ written' = CallerWrites(handler, m, fiat_converter)
            /\ message' = compose_message(handler, m)
            /\ chat_ids' = ids
            /\ sent' = <<>>
            /\ pos' = IF ids = <<>> THEN 0 ELSE 1
            /\ pc' = IF ids = <<>> THEN "done" ELSE "send"
            /\ result' = "sent"
            /\ error' = "none"
    /\ UNCHANGED config
    /\ UNCHANGED webhook_vars

\* the arguments of a call of bot.send_message to chat_ids[pos]
Call(o, silent) ==
    [pos |-> pos, chat_id |-> chat_ids[pos], text |-> message,
     parse_mode |-> ParseModeHTML, disable_notification |-> silent,
     outcome |-> o]

\* the call of the try block
FirstCall(o) == Call(o, IsSilent(noti))

\* a retry that leaves disable_notification at its default
RetryCall_Loud(o) == Call(o, FALSE)

\* the call of the except NetworkError block
RetryCall(o) == Call(o, IsSilent(noti))

\* the for loop moves to the next chat id, or _send_msg returns
NextRecipient ==
    /\ pos' = pos + 1
    /\ pc' = IF pos < Len(chat_ids) THEN "send" ELSE "done"
    /\ result' = result

\* a first call whose NetworkError is not retried
AfterFirst_NoRetry(o) == NextRecipient

\* a first call retried after any failure
AfterFirst_RetryAny(o) ==
    IF o # OK
    THEN pc' = "retry" /\ pos' = pos /\ result' = result
    ELSE NextRecipient

\* after the first call: NetworkError enters the inner handler, any other
\* TelegramError is logged by the outer one, success ends the iteration
AfterFirst(o) ==
    IF o = NetworkError
    THEN pc' = "retry" /\ pos' = pos /\ result' = result
    ELSE NextRecipient

\* a retry whose failure is not caught and reaches the caller
AfterRetry_Raise(o) ==
    IF o # OK
    THEN pc' = "done" /\ pos' = pos /\ result' = "raised"
    ELSE NextRecipient

\* after the second call: success ends the iteration, and every
\* TelegramError (NetworkError is one) is logged by the outer handler
AfterRetry(o) == NextRecipient

\* the first bot.send_message to chat_ids[pos]
FirstAttempt(o) ==
    /\ pc = "send"
    /\ sent' = Append(sent, FirstCall(o))
    /\ AfterFirst(o)
    /\ UNCHANGED <<msg, written, noti, message, chat_ids, error>>
    /\ UNCHANGED config
    /\ UNCHANGED webhook_vars

\* the bot.send_message of the except NetworkError branch
RetryAttempt(o) ==
    /\ pc = "retry"
    /\ sent' = Append(sent, RetryCall(o))
    /\ AfterRetry(o)
    /\ UNCHANGED <<msg, written, noti, message, chat_ids, error>>
    /\ UNCHANGED config
    /\ UNCHANGED webhook_vars

\* send_msg has returned (or raised) to its caller; the handler is idle again
Return ==
    /\ pc = "done"
    /\ pc' = "idle"
    /\ msg' = NoEvent
    /\ written' = {}
    /\ noti' = default_noti
    /\ message' = Text("", "", "")
    /\ chat_ids' = <<>>
    /\ pos' = 0
    /\ sent' = <<>>
    /\ result' = "none"
    /\ error' = "none"
    /\ UNCHANGED config
    /\ UNCHANGED webhook_vars

\* Webhook.send_msg has returned (or raised) to its caller
WebhookReturn ==
    /\ wpc = "done"
    /\ wpc' = "idle"
    /\ wmsg' = NoEvent
    /\ posts' = <<>>
    /\ wresult' = "none"
    /\ UNCHANGED config
    /\ UNCHANGED chat_vars

Dispatch == \E m \in Events : send_msg(m)

First == \E o \in Outcomes : FirstAttempt(o)

Retry == \E o \in Outcomes : RetryAttempt(o)

WebhookDispatch == \E m \in Events : \E o \in PostOutcomes : Webhook_send_msg(m, o)

Next == Dispatch \/ First \/ Retry \/ Return \/ WebhookDispatch \/ WebhookReturn

Spec == Init /\ [][Next]_vars

----------------------------------------------------------------------------
(* Vocabulary of the properties *)

\* the dispatch in progress reached _send_msg
Fanout == pc # "idle" /\ result = "sent"

\* the indices of sent that are calls to the k-th recipient
AttemptsTo(k) == {i \in DOMAIN sent : sent[i].pos = k}

\* sent[i] is the first call to its recipient
IsFirst(i) == i = 1 \/ sent[i - 1].pos # sent[i].pos

\* the recipients contacted so far, in the order of their first contact
Contacted == [k \in 1..Cardinality({sent[i].pos : i \in DOMAIN sent}) |->
                 sent[CHOOSE i \in DOMAIN sent :
                        /\ IsFirst(i)
                        /\ Cardinality({sent[j].pos : j \in 1..i}) = k].chat_id]

\* the number of primary ids of the configuration
RECURSIVE CountIds(_)
CountIds(dicts) ==
    IF dicts = <<>> THEN 0 ELSE Len(Head(dicts)) + CountIds(Tail(dicts))

\* the i-th dict's j-th id is the primary number PrimaryIndex(i, j)
PrimaryIndex(i, j) == CountIds(SubSeq(master_ids, 1, i - 1)) + j

\* how the handler treats the resolved policy
Decision == IF IsOff(noti) THEN "off" ELSE IF IsSilent(noti) THEN "silent" ELSE "on"

----------------------------------------------------------------------------
(* C1 *)

\* C1: in every dispatch, a resolved policy of 'off' means no call of
\* bot.send_message at all; 'silent' means every call, first attempts and
\* retries alike, has disable_notification = TRUE; 'on' means every call has
\* disable_notification = FALSE.
C1_PolicyThreading ==
    /\ (noti.kind = "str" /\ noti.val = "off") => sent = <<>>
    /\ (noti.kind = "str" /\ noti.val = "silent") =>
          \A i \in DOMAIN sent : sent[i].disable_notification = TRUE
    /\ (noti.kind = "str" /\ noti.val = "on") =>
          \A i \in DOMAIN sent : sent[i].disable_notification = FALSE

\* a silent dispatch whose first call failed in the network and was retried
C1_Witness ==
    /\ noti.kind = "str" /\ noti.val = "silent"
    /\ Len(sent) >= 2
    /\ sent[1].outcome = NetworkError
    /\ sent[2].pos = sent[1].pos
    /\ sent[2].disable_notification

----------------------------------------------------------------------------
(* C2 *)

\* C2: a dispatch of an event of a type other than Startup and Status, with
\* N primary ids and a secondary id configured, that reaches the fanout
\* contacts N+1 recipients: the primary ids in the insertion order of the
\* configuration, then the secondary id.  The calls are made recipient by
\* recipient: no call to recipient k follows a call to recipient k+1, and
\* when the dispatch is over exactly these N+1 recipients were contacted.
C2_FanoutOrder ==
    (Fanout /\ msg.type \notin {STARTUP, STATUS} /\ chat_id # "") =>
        LET N == CountIds(master_ids) IN
        /\ Len(chat_ids) = N + 1
        /\ \A i \in DOMAIN master_ids : \A j \in DOMAIN master_ids[i] :
              chat_ids[PrimaryIndex(i, j)] = master_ids[i][j]
        /\ chat_ids[N + 1] = chat_id
        /\ \A i \in DOMAIN sent : sent[i].chat_id = chat_ids[sent[i].pos]
        /\ \A i \in DOMAIN sent : i > 1 =>
              sent[i].pos \in {sent[i - 1].pos, sent[i - 1].pos + 1}
        /\ sent # <<>> => sent[1].pos = 1
        /\ Contacted = SubSeq(chat_ids, 1, Len(Contacted))
        /\ pc = "done" => Contacted = chat_ids

\* an Exit dispatch to two primary ids and the secondary has ended
C2_Witness ==
    /\ Fanout /\ pc = "done"
    /\ msg.type = EXIT
    /\ CountIds(master_ids) = 2
    /\ Len(master_ids) = 2
    /\ chat_id # ""
    /\ Contacted = <<master_ids[1][1], master_ids[2][1], chat_id>>

----------------------------------------------------------------------------
(* C3 *)

\* C3: a dispatch of a Startup event makes no call of bot.send_message,
\* whatever primary list, secondary id and policy are configured.
C3_StartupSilent ==
    msg.type = STARTUP => (sent = <<>> /\ chat_ids = <<>> /\ pc # "send" /\ pc # "retry")

\* a Startup event was composed under a policy that is not 'off', with
\* primary ids and a secondary id configured, and the dispatch is over
C3_Witness ==
    /\ msg.type = STARTUP
    /\ Fanout /\ pc = "done"
    /\ master_ids # <<>>
    /\ chat_id # ""
    /\ sent = <<>>

----------------------------------------------------------------------------
(* C4 *)

\* C4: a dispatch of a Status event that reaches the fanout contacts every
\* primary id and never the secondary id; a dispatch of any type other than
\* Startup and Status that reaches the fanout contacts the secondary id when
\* one is configured.
C4_SecondarySubscription ==
    Fanout =>
        /\ msg.type = STATUS =>
              /\ \A i \in DOMAIN sent : sent[i].chat_id # chat_id
              /\ Len(chat_ids) = CountIds(master_ids)
              /\ pc = "done" =>
                    \A i \in DOMAIN master_ids : \A j \in DOMAIN master_ids[i] :
                        \E a \in DOMAIN sent : sent[a].chat_id = master_ids[i][j]
        /\ (msg.type \notin {STARTUP, STATUS} /\ chat_id # "" /\ pc = "done") =>
              \E a \in DOMAIN sent : sent[a].chat_id = chat_id

\* a Status dispatch with primary ids and a secondary id configured has
\* ended after contacting the primary ids
C4_Witness ==
    /\ Fanout /\ pc = "done"
    /\ msg.type = STATUS
    /\ chat_id # ""
    /\ CountIds(master_ids) = 2
    /\ Len(Contacted) = 2

----------------------------------------------------------------------------
(* C5 *)

\* C5: when the first call to a recipient fails with NetworkError, the next
\* call of the dispatch is one more call to the same recipient with the same
\* text, parse mode and disable_notification; when that second call
\* succeeds the recipient has had exactly 2 calls and the loop has moved on;
\* no recipient ever has a third call.
C5_RetryOnce ==
    /\ \A k \in DOMAIN chat_ids : Cardinality(AttemptsTo(k)) <= 2
    /\ \A i \in DOMAIN sent :
          (IsFirst(i) /\ sent[i].outcome = NetworkError) =>
             IF i = Len(sent)
             THEN pc = "retry" /\ pos = sent[i].pos
             ELSE /\ sent[i + 1] = [sent[i] EXCEPT !.outcome = sent[i + 1].outcome]
                  /\ sent[i + 1].outcome = OK =>
                        /\ AttemptsTo(sent[i].pos) = {i, i + 1}
                        /\ i + 1 = Len(sent) =>
                              (pc \in {"send", "done"} /\ pos = sent[i].pos + 1)
                        /\ i + 1 < Len(sent) => sent[i + 2].pos = sent[i].pos + 1

\* the first call failed in the network, the retry succeeded, and the loop
\* went on to the second recipient
C5_Witness ==
    /\ Len(sent) >= 3
    /\ sent[1].outcome = NetworkError
    /\ sent[2].outcome = OK
    /\ sent[2].pos = 1
    /\ sent[3].pos = 2

----------------------------------------------------------------------------
(* C6 *)

\* C6: when the first call and the retry to a recipient both fail with
\* NetworkError, that recipient has had exactly 2 calls, nothing is raised to
\* the caller of send_msg, and the loop goes on to the next recipient; when
\* _send_msg returns, every recipient of chat_ids has had at least one call,
\* whatever the outcomes of the earlier calls were.
C6_FailureDoesNotAbort ==
    /\ sent # <<>> => result = "sent"
    /\ (Fanout /\ pc = "done") => \A k \in DOMAIN chat_ids : AttemptsTo(k) # {}
    /\ (Fanout /\ pc \in {"send", "retry"}) =>
          /\ pos \in DOMAIN chat_ids
          /\ \A k \in 1..(pos - 1) : AttemptsTo(k) # {}
    /\ \A i \in DOMAIN sent :
          (/\ i + 1 \in DOMAIN sent
           /\ sent[i + 1].pos = sent[i].pos
           /\ sent[i].outcome = NetworkError
           /\ sent[i + 1].outcome = NetworkError) =>
              /\ AttemptsTo(sent[i].pos) = {i, i + 1}
              /\ i + 1 = Len(sent) =>
                    /\ pos = sent[i].pos + 1
                    /\ pc = IF pos <= Len(chat_ids) THEN "send" ELSE "done"
              /\ i + 1 < Len(sent) => sent[i + 2].pos = sent[i].pos + 1

\* both calls to the first recipient failed in the network, the second
\* recipient was called all the same, and send_msg returned normally
C6_Witness ==
    /\ Fanout /\ pc = "done"
    /\ Len(sent) >= 3
    /\ sent[1].outcome = NetworkError
    /\ sent[2].outcome = NetworkError
    /\ sent[2].pos = 1
    /\ sent[3].pos = 2
    /\ sent[3].outcome # OK

----------------------------------------------------------------------------
(* C7 *)

\* C7: when the first call to a recipient fails with a TelegramError that is
\* not a NetworkError, that recipient has exactly one call (no retry),
\* nothing is raised to the caller, and the loop goes on to the next
\* recipient.
C7_PermanentNoRetry ==
    \A i \in DOMAIN sent :
        (IsFirst(i) /\ sent[i].outcome = TelegramError) =>
            /\ AttemptsTo(sent[i].pos) = {i}
            /\ result = "sent"
            /\ i = Len(sent) =>
                  /\ pos = sent[i].pos + 1
                  /\ pc = IF pos <= Len(chat_ids) THEN "send" ELSE "done"
            /\ i < Len(sent) => sent[i + 1].pos = sent[i].pos + 1

\* the only call to the first recipient failed permanently and the second
\* recipient was called next
C7_Witness ==
    /\ Len(sent) >= 2
    /\ sent[1].outcome = TelegramError
    /\ sent[2].pos = 2
    /\ result = "sent"

----------------------------------------------------------------------------
(* C8 *)

\* C8: when notification_settings has no entry for the type of the event,
\* the resolved policy is 'on': the dispatch is not suppressed, composition
\* is attempted, and every call of bot.send_message has
\* disable_notification = FALSE.
C8_DefaultOn ==
    (pc # "idle" /\ msg.type \notin DOMAIN notification_settings) =>
        /\ noti.kind = "str" /\ noti.val = "on"
        /\ result \in {"sent", "raised"}
        /\ \A i \in DOMAIN sent : ~sent[i].disable_notification

\* an Exit event under settings without an exit entry was sent loudly
C8_Witness ==
    /\ msg.type = EXIT
    /\ EXIT \notin DOMAIN notification_settings
    /\ sent # <<>>
    /\ ~sent[1].disable_notification

----------------------------------------------------------------------------
(* C9 *)

\* C9: for an Exit and for an ExitFill event, an entry that is a single
\* tri-state is the decision, and an entry that is a per-reason mapping
\* gives the value mapped to the event's exit reason.
C9_ExitFamilyMapping ==
    (pc # "idle" /\ msg.type \in {EXIT, EXIT_FILL}
                 /\ msg.type \in DOMAIN notification_settings) =>
        LET entry == notification_settings[msg.type] IN
        IF entry.kind = "str"
        THEN Decision = entry.val
        ELSE Str(msg.exit_reason) \in DOMAIN entry.val =>
                Decision = entry.val[Str(msg.exit_reason)]

----------------------------------------------------------------------------
(* C10 *)

\* C10: for an exit-family event whose entry is a per-reason mapping, when
\* the exit reason is None or is no key of the mapping, the decision is the
\* mapping's 'default' value, and 'on' when the mapping has none; the lookup
\* raises nothing.
C10_MappingDefault ==
    (/\ pc # "idle"
     /\ msg.type \in {EXIT, EXIT_FILL}
     /\ msg.type \in DOMAIN notification_settings
     /\ notification_settings[msg.type].kind = "dict"
     /\ (msg.exit_reason = None
         \/ Str(msg.exit_reason) \notin DOMAIN notification_settings[msg.type].val)) =>
        Decision = Get(notification_settings[msg.type].val, "default", "on")

----------------------------------------------------------------------------
(* Vocabulary of the webhook properties *)

\* Webhook.send_msg ended by raising to its caller
WebhookRaised == wresult \in {"raised unknown type", "raised unknown format"}

\* the configuration holds a non-empty template for events of type t; the
\* types outside the if/elif chain of send_msg have no template key at all
TemplateConfigured(cfg, t) == HasWebhookBranch(t) /\ Truthy(valuedict(cfg, t))

----------------------------------------------------------------------------
(* C11 *)

\* C11: when requests.post fails with a transport error, the dispatch made
\* exactly that one post, the failure is not raised to the caller of
\* send_msg, and no dispatch makes more than one post.
C11_NoRetry ==
    /\ Len(posts) <= 1
    /\ \A i \in DOMAIN posts :
          posts[i].outcome = RequestException =>
              (Len(posts) = 1 /\ wresult = "returned" /\ ~WebhookRaised)

\* a webhook dispatch whose post failed in the transport has ended
C11_Witness ==
    /\ wpc = "done"
    /\ posts # <<>>
    /\ posts[1].outcome = RequestException

----------------------------------------------------------------------------
(* C12 *)

\* C12: a webhook dispatch of an event of any type of the taxonomy for which
\* no template is configured makes no post and returns normally: send_msg
\* raises nothing to its caller.
C12_UnconfiguredSkips ==
    (wpc = "done" /\ ~TemplateConfigured(webhook, wmsg.type)) =>
        (posts = <<>> /\ ~WebhookRaised)

----------------------------------------------------------------------------
(* C13 *)

\* C13: a webhook dispatch whose configured template has a value that
\* refers to a field the event does not carry makes no post and returns
\* normally: the KeyError is caught and logged inside send_msg.
C13_MissingFieldDropped ==
    (/\ wpc = "done"
     /\ TemplateConfigured(webhook, wmsg.type)
     /\ \E k \in DOMAIN valuedict(webhook, wmsg.type).val :
           LET value == valuedict(webhook, wmsg.type).val[k] IN
           value.field # "" /\ value.field \notin MsgKeys(wmsg)) =>
        (posts = <<>> /\ wresult = "logged KeyError")

\* an entry event without a 'reason' met a template that refers to {reason}
C13_Witness ==
    /\ wpc = "done"
    /\ wmsg.type = ENTRY_CANCEL
    /\ ~wmsg.has_reason
    /\ TemplateConfigured(webhook, wmsg.type)
    /\ valuedict(webhook, wmsg.type).val = ("value1" :> Field("reason"))
    /\ posts = <<>>

----------------------------------------------------------------------------
(* C14 *)

\* the template of the dispatch in progress
Template == valuedict(webhook, wmsg.type).val

\* every posted payload has the keys 'exchange' and 'type', and keeps every
\* value the template produced
PayloadKeepsTemplate ==
    \A i \in DOMAIN posts :
        /\ {"exchange", "type"} \subseteq DOMAIN posts[i].payload
        /\ \A k \in DOMAIN Template : posts[i].payload[k] = Format(Template[k], wmsg)
        /\ "type" \notin DOMAIN Template => posts[i].payload["type"] = wmsg.type

\* C14 as stated: every posted payload has an 'exchange' and a 'type' key, a
\* value the template produced for either is kept, an omitted 'type' is the
\* event's type and an omitted 'exchange' is the exchange of the event.
C14_ExchangeFromEvent ==
    /\ PayloadKeepsTemplate
    /\ \A i \in DOMAIN posts :
          "exchange" \notin DOMAIN Template =>
              /\ "exchange" \in MsgKeys(wmsg)
              /\ posts[i].payload["exchange"] = FieldValue(wmsg, "exchange")

\* C14: every posted payload has an 'exchange' and a 'type' key, a value the
\* template produced for either is kept, an omitted 'type' is the event's
\* type and an omitted 'exchange' is config['exchange']['name'], the
\* exchange name of the handler's configuration.
C14_PayloadKeys ==
    /\ PayloadKeepsTemplate
    /\ \A i \in DOMAIN posts :
          "exchange" \notin DOMAIN Template =>
              posts[i].payload["exchange"] = ConfigExchangeName

\* a status event, which carries no exchange, was posted from a template
\* without 'type' and 'exchange'
C14_Witness ==
    /\ posts # <<>>
    /\ wmsg.type = STATUS
    /\ DOMAIN Template = {"value1"}
    /\ posts[1].payload = ("value1" :> "fixed text") @@ ("type" :> STATUS)
                               @@ ("exchange" :> ConfigExchangeName)

----------------------------------------------------------------------------
(* C15 *)

\* C15: the webhook handler is constructed exactly when config['webhook']
\* has format 'form', 'json' or no format (then 'form'); a handler that was
\* not constructed dispatches nothing; no dispatch ends in the unknown-format
\* error of _send_msg; and every post carries the payload as 'data' when the
\* format is 'form' and as 'json' when it is 'json', never as both.
C15_FormatChecked ==
    handler = "webhook" =>
        /\ constructed <=> webhook.format \in {None, "form", "json"}
        /\ ~constructed => (wpc = "idle" /\ posts = <<>>)
        /\ wresult # "raised unknown format"
        /\ \A i \in DOMAIN posts :
              posts[i].kwargs \cap {"data", "json"} =
                  IF webhook.format = "json" THEN {"json"} ELSE {"data"}

\* a handler configured with format 'json' and credentials posted a payload
C15_Witness ==
    /\ handler = "webhook"
    /\ webhook.format = "json"
    /\ webhook.auth
    /\ posts # <<>>
    /\ posts[1].kwargs = {"json", "auth"}

----------------------------------------------------------------------------
(* C16 *)

\* C16: a chat dispatch of an event whose type is none of the known event
\* families, under a policy that is not 'off', never raises: the composer
\* returns the generic passthrough text and the dispatch goes on to the
\* fanout over the resolved recipients.
C16_UnknownTypePassthrough ==
    (pc # "idle" /\ msg.type = OTHER_TYPE /\ ~IsOff(noti)) =>
        /\ result = "sent"
        /\ error = "none"
        /\ message = Text("passthrough", "", "")

----------------------------------------------------------------------------
(* C17 *)

\* C17: a dispatch leaves the caller's event as it was: send_msg assigns no
\* key of the dict it was given, whatever the type, the policy and the
\* outcome of the deliveries.
C17_EventUnchanged == written = {}

----------------------------------------------------------------------------
(* C18 *)

\* the marker of the priority chain over profit_percent and the exit reason
ChainMarker(m) ==
    IF profit_percent(m) >= 500 THEN "ROCKET"
    ELSE IF profit_percent(m) >= 0 THEN "CURRENCY EXCHANGE"
    ELSE IF m.exit_reason = "stoploss" THEN "WARNING SIGN"
    ELSE "CROSS MARK"

\* C18: in channel.py the emoji of a pending Exit is the marker of the
\* priority chain (>= 5.0, then >= 0.0, then exit reason 'stoploss', then
\* loss), choosing it fails for no pending Exit that carries profit_ratio
\* and exit_reason, and an ExitFill gets the closed marker whatever its
\* profit.
C18_EmojiChain ==
    (pc # "idle" /\ handler = "channel" /\ ~IsOff(noti)) =>
        /\ msg.type = EXIT =>
              /\ msg.exit_reason # None => error # "KeyError"
              /\ result = "sent" => message.emoji = ChainMarker(msg)
        /\ msg.type = EXIT_FILL =>
              /\ error # "KeyError"
              /\ result = "sent" => message.emoji = "LARGE RED CIRCLE"

----------------------------------------------------------------------------
(* C19 *)

\* C19: in channel.py, with no fiat converter configured, composing an Exit
\* or ExitFill event (partial exits with a profit_amount other than the
\* cumulative profit included) never calls the missing converter, which
\* would fail with AttributeError, and unless the composer fails elsewhere
\* the event goes on to the fanout.
C19_FiatGuarded ==
    (/\ pc # "idle"
     /\ handler = "channel"
     /\ msg.type \in {EXIT, EXIT_FILL}
     /\ ~fiat_converter
     /\ ~IsOff(noti)) =>
        /\ error # "AttributeError"
        /\ error = "none" => result = "sent"

----------------------------------------------------------------------------
(* C20 *)

\* what the reason line of a cancel text shows according to the claim
ClaimedReasonLine(m) ==
    IF m.type = EXIT_CANCEL /\ m.exit_reason # None THEN "exit_reason"
    ELSE IF m.has_reason THEN "reason"
    ELSE "timeout"

\* C20: composing an EntryCancel or ExitCancel event never raises, and the
\* reason line shows the event's reason when it has one, the literal
\* 'timeout' when it has none, and for ExitCancel the event's exit reason
\* in place of either.
C20_CancelReason ==
    (pc # "idle" /\ msg.type \in {ENTRY_CANCEL, EXIT_CANCEL} /\ ~IsOff(noti)) =>
        /\ error = "none"
        /\ result = "sent"
        /\ message.reason = ClaimedReasonLine(msg)

====
